---------------------------- MODULE Spec2Model ----------------------------
(***************************************************************************)
(* A model of greins' GreinsApplication (src/greins/app.py): the boot path *)
(* load(), the per-unit loader task load_file(), the hook registration     *)
(* _setup_hooks(), the hook proxies installed by setup_hooks() and the     *)
(* fan-out _do_hook().                                                     *)
(*                                                                         *)
(* Strings that the code inspects character by character (mount paths)    *)
(* are sequences of one-character strings: "/s" is <<"/", "s">>.           *)
(* greins.router.Router and greins.synchronization.synchronized are       *)
(* imported by app.py but are not part of the sources at hand; they are    *)
(* modelled from the specification (sections 4.1 and 5).                   *)
(***************************************************************************)
EXTENDS Naturals, Sequences, FiniteSets, TLC

VARIABLES
    main_pc,       \* position of load(): "init", "dispatch", "booted"
    to_dispatch,   \* units of glob.glob(...) for which no thread was started yet
    use_reloader,  \* self._use_reloader
    extra_files,   \* files given to self._reloader.add_extra_file
    router,        \* self._router: the mount table, path -> handler
    hooks,         \* self._hooks: event name -> list of handlers
    hook_order,    \* the order in which self._hooks.items() yields the events
    proxies,       \* names for which self.cfg.set(name, proxy) was called
    hooks_lock,    \* owner of self._hooks_lock, or NoOwner
    pc,            \* position of each unit's load_file task
    cfg_mounts,    \* cfg['mounts'] of each unit's scope
    cfg_hooks,     \* the other names bound in each unit's scope
    todo,          \* keys of cfg['mounts'] the loop of load_file has not visited
    hook_idx,      \* position of _setup_hooks in self._hooks.items()
    body_result,   \* history: what executing each unit's body did
    caught,        \* history: the exception each unit's except clause caught
    hung,          \* whether each unit's task is inside a call that never returns
    add_calls,     \* history: the calls of add_mount made so far
    fire,          \* the external server's current call of a hook proxy
    calls,         \* history: handler invocations of the current fan-out
    np_raw,        \* normalisation on its own: the declared path
    np_out,        \* normalisation on its own: the path after the steps taken
    np_pc,         \* normalisation on its own: the step reached
    rs_path,       \* resolution on its own: the request path
    rs_out         \* resolution on its own: what resolve returned, or None

boot_vars == <<main_pc, to_dispatch, use_reloader, extra_files, proxies, hook_order>>
unit_vars == <<pc, cfg_mounts, cfg_hooks, todo, hook_idx, body_result, caught, hung>>
table_vars == <<router, add_calls>>
hook_vars == <<hooks, hooks_lock>>
fire_vars == <<fire, calls>>
np_vars == <<np_raw, np_out, np_pc>>
rs_vars == <<rs_path, rs_out>>
vars == <<boot_vars, unit_vars, table_vars, hook_vars, fire_vars, np_vars, rs_vars>>

----------------------------------------------------------------------------
(* Values *)

None == "None"
NoOwner == "nobody"
Server == "server"
Slash == "/"

\* The configuration units found by glob ('a.py', 'b.py'), named by cf_name.
Units == {"a", "b"}

\* os.path.splitext(os.path.basename(cf))[0] as a string of characters.
UnitName(u) == <<u>>

\* The file of a unit, and the other files a traceback can name.
UnitFile(u) == <<"cf", u>>
AppFile == <<"src", "greins/app.py">>
LibFile == <<"src", "gunicorn">>

\* import_app(app_name): the handler resolved from a unit's name.
ImportApp(u) == IF u = "a" THEN "AppA" ELSE "AppB"

EmptyDict == [x \in {} |-> None]

----------------------------------------------------------------------------
(* Path normalisation, lines 138-143 of load_file *)

\* r.endswith('/')
EndsWithSlash(r) == Len(r) > 0 /\ r[Len(r)] = Slash

\* r.rstrip('/'): every trailing '/' is removed.
RECURSIVE RStrip(_)
RStrip(r) == IF EndsWithSlash(r) THEN RStrip(SubSeq(r, 1, Len(r) - 1)) ELSE r

\* r.startswith('/')
StartsWithSlash(r) == Len(r) > 0 /\ r[1] = Slash

\* A strip that removes one trailing '/' only.
StripTrailing_Once(r) == IF EndsWithSlash(r) THEN SubSeq(r, 1, Len(r) - 1) ELSE r

\* if r.endswith('/'): r = r.rstrip('/')
StripTrailing(r) == IF EndsWithSlash(r) THEN RStrip(r) ELSE r

\* if r and not r.startswith('/'): r = '/' + r
AddLeading(r) == IF r # <<>> /\ ~StartsWithSlash(r) THEN <<Slash>> \o r ELSE r

\* The path load_file hands to add_mount for the declared key r.
Normalize(r) == AddLeading(StripTrailing(r))

----------------------------------------------------------------------------
(* The mount table, greins.router.Router (specification, section 4.1) *)

\* The key of a path in the table: leading '/' enforced, trailing '/'
\* stripped, except for the root.
RouterKey(r) ==
    IF RStrip(r) = <<>> THEN <<Slash>>
    ELSE IF StartsWithSlash(r) THEN RStrip(r) ELSE <<Slash>> \o RStrip(r)

\* add_mount(path, handler): the handler returned (insert-or-get).
AddMountResult(table, r, a) ==
    IF RouterKey(r) \in DOMAIN table THEN table[RouterKey(r)] ELSE a

\* An add_mount that overwrites the entry of an existing key.
AddMountTable_Overwrite(table, r, a) ==
    [k \in DOMAIN table \cup {RouterKey(r)} |-> IF k = RouterKey(r) THEN a ELSE table[k]]

\* add_mount(path, handler): the table afterwards.
AddMountTable(table, r, a) ==
    IF RouterKey(r) \in DOMAIN table THEN table ELSE table @@ (RouterKey(r) :> a)

\* resolve(request_path) finds no mounted prefix.
NotFound == "NotFound"

\* A resolve that only finds the request path itself.
Resolve_Exact(table, path) == IF path \in DOMAIN table THEN table[path] ELSE NotFound

\* resolve(request_path): the request path is walked back one character at
\* a time until what is left of it is a mounted path.
RECURSIVE Resolve(_, _)
Resolve(table, path) ==
    IF path \in DOMAIN table THEN table[path]
    ELSE IF path = <<>> THEN NotFound
    ELSE Resolve(table, SubSeq(path, 1, Len(path) - 1))

----------------------------------------------------------------------------
(* The external server's settings and the hook handlers *)

\* gunicorn.config.make_settings(): name, section, and the arity of the
\* default handler. Two server hooks of different arity and one setting of
\* another section.
Settings ==
    { [name |-> "when_ready", section |-> "Server Hooks", arity |-> 1],
      [name |-> "pre_fork", section |-> "Server Hooks", arity |-> 2],
      [name |-> "workers", section |-> "Worker Processes", arity |-> 0] }

SettingNames == {s.name : s \in Settings}

\* A discovery that takes every setting for an event.
ServerHookNames_All == SettingNames

\* if obj.section == "Server Hooks"
ServerHookNames == {s.name : s \in {t \in Settings : t.section = "Server Hooks"}}

Arity(name) == (CHOOSE s \in Settings : s.name = name).arity

\* The arguments the external server calls the hook `name` with.
ServerArgs(name) == SubSeq(<<"server", "worker">>, 1, Arity(name))

\* A hook handler bound in a unit's scope: the unit, the name it is bound
\* under, and what it does ("good", "invalid": fails the validator,
\* "raising": raises when called).
HookKinds == {"good", "invalid", "raising"}
\* cfg.get(name) when the name is not bound: no handler.
NoHandler == <<>>
HookHandler(u, n, k) == IF k = None THEN NoHandler ELSE <<u, n, k>>

\* A registration that does not run the validator.
ValidatorPasses_Skipped(h) == TRUE

\* hook['validator'](handler) passes.
ValidatorPasses(h) == h[3] # "invalid"

\* handler(*argtuple) raises.
HandlerRaises(h) == h[3] = "raising"

\* All orders in which a dict can yield the events.
Orders(S) == {o \in [1..Cardinality(S) -> S] : \A i, j \in 1..Cardinality(S) : i # j => o[i] # o[j]}

----------------------------------------------------------------------------
(* The contents of a configuration unit *)

NoHooks == [n \in SettingNames |-> None]

\* What executing a unit's body can do: end normally ("ok"), raise
\* ("raise") or fail to compile ("syntax"), having bound `mounts` and
\* `hooks` (kinds by name) in its scope.
Bodies ==
    { [body |-> "raise", mounts |-> (<<"/", "s">> :> "X"),
       hooks |-> [NoHooks EXCEPT !["when_ready"] = "good"]],
      [body |-> "syntax", mounts |-> EmptyDict, hooks |-> NoHooks],
      [body |-> "ok", mounts |-> EmptyDict,
       hooks |-> [NoHooks EXCEPT !["when_ready"] = "good", !["pre_fork"] = "good"]],
      [body |-> "ok", mounts |-> (<<"/", "s">> :> "X"),
       hooks |-> [NoHooks EXCEPT !["when_ready"] = "raising", !["pre_fork"] = "good"]],
      [body |-> "ok", mounts |-> (<<"s", "/">> :> "Y"),
       hooks |-> [NoHooks EXCEPT !["when_ready"] = "good", !["pre_fork"] = "invalid"]],
      [body |-> "ok", mounts |-> (<<"/">> :> "X") @@ (<<"t">> :> "Y"),
       hooks |-> [NoHooks EXCEPT !["pre_fork"] = "raising"]],
      [body |-> "ok", mounts |-> (<<"/", "a">> :> "AppA"),
       hooks |-> [NoHooks EXCEPT !["workers"] = "good"]],
      [body |-> "ok", mounts |-> (<<"s">> :> "X") @@ (<<"/", "s">> :> "Y"),
       hooks |-> NoHooks] }

\* The body of a unit that was not executed yet.
NotRun == [body |-> "none", mounts |-> EmptyDict, hooks |-> NoHooks]

----------------------------------------------------------------------------
(* Initial state: init() has run, load() has not *)

IdleFire ==
    [st |-> "idle", event |-> None, args |-> [is_tuple |-> TRUE, items |-> <<>>],
     idx |-> 0, seen |-> <<>>]

LoaderInit ==
    /\ main_pc = "init"
    /\ to_dispatch = Units
    /\ use_reloader \in BOOLEAN
    /\ extra_files = {}
    /\ router = EmptyDict
    /\ hooks = EmptyDict
    /\ hook_order = <<>>
    /\ proxies = {}
    /\ hooks_lock = NoOwner
    /\ pc = [u \in Units |-> "unstarted"]
    /\ cfg_mounts = [u \in Units |-> EmptyDict]
    /\ cfg_hooks = [u \in Units |-> [n \in SettingNames |-> NoHandler]]
    /\ todo = [u \in Units |-> {}]
    /\ hook_idx = [u \in Units |-> 0]
    /\ body_result = [u \in Units |-> NotRun]
    /\ caught = [u \in Units |-> None]
    /\ hung = [u \in Units |-> FALSE]
    /\ add_calls = {}
    /\ fire = IdleFire
    /\ calls = <<>>

NormIdle ==
    /\ np_raw = <<>>
    /\ np_out = <<>>
    /\ np_pc = "off"

ResolveIdle ==
    /\ rs_path = <<>>
    /\ rs_out = None

Init == LoaderInit /\ NormIdle /\ ResolveIdle

----------------------------------------------------------------------------
(* load(), lines 161-185 *)

\* setup_hooks(), lines 92-107: an empty handler list for every setting of
\* the "Server Hooks" section.
setup_hooks == [n \in ServerHookNames |-> <<>>]

\* Lines 162-169: the router, the hooks lock, the hook proxies, the reloader.
LoadSetup ==
    /\ main_pc = "init"
    /\ main_pc' = "dispatch"
    /\ hooks' = setup_hooks
    /\ proxies' = DOMAIN setup_hooks
    /\ hook_order' \in Orders(DOMAIN setup_hooks)
    /\ UNCHANGED <<to_dispatch, use_reloader, extra_files, hooks_lock>>
    /\ UNCHANGED <<unit_vars, table_vars, fire_vars, np_vars, rs_vars>>

\* Lines 171-182: one thread per configuration file, in glob's order.
Dispatch(u) ==
    /\ main_pc = "dispatch"
    /\ u \in to_dispatch
    /\ to_dispatch' = to_dispatch \ {u}
    /\ extra_files' = IF use_reloader THEN extra_files \cup {UnitFile(u)} ELSE extra_files
    /\ pc' = [pc EXCEPT ![u] = "exec"]
    /\ UNCHANGED <<main_pc, use_reloader, proxies, hook_order>>
    /\ UNCHANGED <<cfg_mounts, cfg_hooks, todo, hook_idx, body_result, caught, hung>>
    /\ UNCHANGED <<table_vars, hook_vars, fire_vars, np_vars, rs_vars>>

\* A load() that joins every loader thread before it returns.
LoadReturn_Joined ==
    /\ main_pc = "dispatch"
    /\ to_dispatch = {}
    /\ \A u \in Units : pc[u] \in {"done", "failed", "exited"}
    /\ main_pc' = "booted"
    /\ UNCHANGED <<to_dispatch, use_reloader, extra_files, proxies, hook_order>>
    /\ UNCHANGED <<unit_vars, table_vars, hook_vars, fire_vars, np_vars, rs_vars>>

\* Lines 184-185: load() returns the router without joining the threads.
LoadReturn ==
    /\ main_pc = "dispatch"
    /\ to_dispatch = {}
    /\ main_pc' = "booted"
    /\ UNCHANGED <<to_dispatch, use_reloader, extra_files, proxies, hook_order>>
    /\ UNCHANGED <<unit_vars, table_vars, hook_vars, fire_vars, np_vars, rs_vars>>

----------------------------------------------------------------------------
(* load_file(), lines 109-159 *)

\* An except clause that registers no file with the reloader.
HandleException_NoWatch(u, what, tb, named) ==
    /\ pc' = [pc EXCEPT ![u] = "failed"]
    /\ caught' = [caught EXCEPT ![u] = what]
    /\ extra_files' = extra_files

\* Lines 149-156: the except clause. what is the exception caught, tb the
\* set of files of the traceback's frames, named the file named by a
\* SyntaxError (or {}).
HandleException(u, what, tb, named) ==
    /\ pc' = [pc EXCEPT ![u] = "failed"]
    /\ caught' = [caught EXCEPT ![u] = what]
    /\ extra_files' = IF use_reloader THEN extra_files \cup tb \cup named ELSE extra_files

\* A load_file that goes on after a failed execfile.
ExecRaises_Ignored(c) == FALSE

\* Lines 119, 129 and 149: an exception raised by execfile leaves the try
\* block for the except clause.
ExecRaises(c) == c.body # "ok"

\* A default mount that is applied whatever the unit declared.
NeedsDefault_Always(m) == TRUE

\* Line 132: if not cfg['mounts']
NeedsDefault(m) == m = EmptyDict

\* Line 129: execfile(cf, cfg, cfg).
ExecFile(u, c) ==
    /\ pc[u] = "exec"
    /\ ~hung[u]
    /\ body_result' = [body_result EXCEPT ![u] = c]
    /\ cfg_mounts' = [cfg_mounts EXCEPT ![u] = c.mounts]
    /\ cfg_hooks' = [cfg_hooks EXCEPT ![u] = [n \in SettingNames |-> HookHandler(u, n, c.hooks[n])]]
    /\ IF ~ExecRaises(c)
       THEN /\ pc' = [pc EXCEPT ![u] = IF NeedsDefault(c.mounts) THEN "default" ELSE "mounts"]
            /\ todo' = [todo EXCEPT ![u] = DOMAIN c.mounts]
            /\ UNCHANGED <<extra_files, caught>>
       ELSE /\ IF c.body = "syntax"
               THEN HandleException(u, "syntax", {AppFile}, {UnitFile(u)})
               ELSE HandleException(u, "body", {AppFile, UnitFile(u)}, {})
            /\ UNCHANGED todo
    /\ UNCHANGED <<main_pc, to_dispatch, use_reloader, proxies, hook_order, hook_idx, hung>>
    /\ UNCHANGED <<table_vars, hook_vars, fire_vars, np_vars, rs_vars>>

\* '/' + app_name, line 134.
DefaultPath(u) == <<Slash>> \o UnitName(u)

\* Lines 132-134: the default mount; import_app(app_name) returns or raises.
DefaultMount(u, found) ==
    /\ pc[u] = "default"
    /\ ~hung[u]
    /\ IF found
       THEN /\ cfg_mounts' = [cfg_mounts EXCEPT ![u] = (DefaultPath(u) :> ImportApp(u))]
            /\ todo' = [todo EXCEPT ![u] = {DefaultPath(u)}]
            /\ pc' = [pc EXCEPT ![u] = "mounts"]
            /\ UNCHANGED <<extra_files, caught>>
       ELSE /\ HandleException(u, "import", {AppFile, LibFile}, {})
            /\ UNCHANGED <<cfg_mounts, todo>>
    /\ UNCHANGED <<main_pc, to_dispatch, use_reloader, proxies, hook_order>>
    /\ UNCHANGED <<cfg_hooks, hook_idx, body_result, hung>>
    /\ UNCHANGED <<table_vars, hook_vars, fire_vars, np_vars, rs_vars>>

\* A comparison that reports a conflict for every mount.
Conflict_Always(returned, a) == TRUE

\* A comparison that never reports a conflict.
Conflict_Never(returned, a) == FALSE

\* Line 144: self._router.add_mount(r, a) != a
Conflict(returned, a) == returned # a

\* The record of one call of add_mount.
AddCall(u, raw, a) ==
    [unit |-> u, raw |-> raw, path |-> Normalize(raw), supplied |-> a,
     returned |-> AddMountResult(router, Normalize(raw), a),
     inserted |-> AddMountTable(router, Normalize(raw), a) # router,
     after_boot |-> main_pc = "booted"]

\* Lines 137-146: one iteration of the loop over cfg['mounts'].iteritems().
\* sys.exit(1) raises SystemExit, which `except Exception` does not catch
\* and which ends the thread it is raised in.
MountStep(u, r) ==
    /\ pc[u] = "mounts"
    /\ ~hung[u]
    /\ r \in todo[u]
    /\ router' = AddMountTable(router, Normalize(r), cfg_mounts[u][r])
    /\ add_calls' = add_calls \cup {AddCall(u, r, cfg_mounts[u][r])}
    /\ todo' = [todo EXCEPT ![u] = @ \ {r}]
    /\ pc' = [pc EXCEPT ![u] =
                IF Conflict(AddMountResult(router, Normalize(r), cfg_mounts[u][r]), cfg_mounts[u][r])
                THEN "exited"
                ELSE IF todo[u] = {r} THEN "hooks" ELSE "mounts"]
    /\ UNCHANGED <<boot_vars, cfg_mounts, cfg_hooks, hook_idx, body_result, caught, hung>>
    /\ UNCHANGED <<hook_vars, fire_vars, np_vars, rs_vars>>

----------------------------------------------------------------------------
(* _setup_hooks(), lines 187-193, under synchronized('_hooks_lock') *)

\* The lock is free for task t (an RLock: free, or held by t itself).
LockFree(t) == hooks_lock = NoOwner

\* A _setup_hooks that is entered without waiting for the lock.
HooksAcquire_NoLock(u) ==
    /\ pc[u] = "hooks"
    /\ ~hung[u]
    /\ hooks_lock' = u
    /\ pc' = [pc EXCEPT ![u] = "register"]
    /\ hook_idx' = [hook_idx EXCEPT ![u] = 1]
    /\ UNCHANGED <<boot_vars, cfg_mounts, cfg_hooks, todo, body_result, caught, hung>>
    /\ UNCHANGED <<hooks, table_vars, fire_vars, np_vars, rs_vars>>

\* Line 148: the call enters the decorator and takes the lock.
HooksAcquire(u) ==
    /\ pc[u] = "hooks"
    /\ ~hung[u]
    /\ LockFree(u)
    /\ hooks_lock' = u
    /\ pc' = [pc EXCEPT ![u] = "register"]
    /\ hook_idx' = [hook_idx EXCEPT ![u] = 1]
    /\ UNCHANGED <<boot_vars, cfg_mounts, cfg_hooks, todo, body_result, caught, hung>>
    /\ UNCHANGED <<hooks, table_vars, fire_vars, np_vars, rs_vars>>

\* A registration that appends the handler to the list of every event.
Register_Everywhere(n, h) == [m \in DOMAIN hooks |-> Append(hooks[m], h)]

\* Line 192-193: the list of event n after handler h was registered.
Register(n, h) == [hooks EXCEPT ![n] = Append(@, h)]

\* Lines 189-193: one iteration of the loop over self._hooks.items(); a
\* validator that raises leaves through the decorator, which frees the lock.
RegisterStep(u) ==
    /\ pc[u] = "register"
    /\ ~hung[u]
    /\ hook_idx[u] <= Len(hook_order)
    /\ LET n == hook_order[hook_idx[u]]
           h == cfg_hooks[u][n]
       IN IF h = NoHandler
          THEN /\ hook_idx' = [hook_idx EXCEPT ![u] = @ + 1]
               /\ UNCHANGED <<pc, hooks, hooks_lock, extra_files, caught>>
          ELSE IF ValidatorPasses(h)
          THEN /\ hooks' = Register(n, h)
               /\ hook_idx' = [hook_idx EXCEPT ![u] = @ + 1]
               /\ UNCHANGED <<pc, hooks_lock, extra_files, caught>>
          ELSE /\ HandleException(u, "validator", {AppFile, LibFile}, {})
               /\ hooks_lock' = NoOwner
               /\ UNCHANGED <<hooks, hook_idx>>
    /\ UNCHANGED <<main_pc, to_dispatch, use_reloader, proxies, hook_order>>
    /\ UNCHANGED <<cfg_mounts, cfg_hooks, todo, body_result, hung>>
    /\ UNCHANGED <<table_vars, fire_vars, np_vars, rs_vars>>

\* The loop is over: _setup_hooks returns, the lock is freed, load_file ends.
HooksRelease(u) ==
    /\ pc[u] = "register"
    /\ ~hung[u]
    /\ hook_idx[u] > Len(hook_order)
    /\ hooks_lock' = NoOwner
    /\ pc' = [pc EXCEPT ![u] = "done"]
    /\ UNCHANGED <<boot_vars, cfg_mounts, cfg_hooks, todo, hook_idx, body_result, caught, hung>>
    /\ UNCHANGED <<hooks, table_vars, fire_vars, np_vars, rs_vars>>

\* The calls load_file makes into code that is not its own and may never
\* return: execfile (line 129), import_app (line 134), and the validator
\* of an event (line 192, inside _setup_hooks, with the hooks lock held).
InForeignCall(u) ==
    \/ pc[u] \in {"exec", "default"}
    \/ /\ pc[u] = "register"
       /\ hook_idx[u] <= Len(hook_order)
       /\ cfg_hooks[u][hook_order[hook_idx[u]]] # NoHandler

\* The call never returns: the task stays where it is.
Hang(u) ==
    /\ ~hung[u]
    /\ InForeignCall(u)
    /\ hung' = [hung EXCEPT ![u] = TRUE]
    /\ UNCHANGED <<pc, cfg_mounts, cfg_hooks, todo, hook_idx, body_result, caught>>
    /\ UNCHANGED <<boot_vars, table_vars, hook_vars, fire_vars, np_vars, rs_vars>>

----------------------------------------------------------------------------
(* The hook proxies (lines 86-107) and _do_hook(), lines 195-198 *)

\* The second argument of greins._do_hook(name, %(spec)s), where spec is
\* the formatted argument list: "(server)" is the argument itself,
\* "(server, worker)" is a tuple.
ProxyArgTuple(args) ==
    IF Len(args) = 1
    THEN [is_tuple |-> FALSE, items |-> args]
    ELSE [is_tuple |-> TRUE, items |-> args]

\* The external server calls the proxy installed for event n.
ProxyCall(n) ==
    /\ fire.st \in {"idle", "returned", "raised"}
    /\ n \in proxies
    /\ fire' = [st |-> "waiting", event |-> n, args |-> ProxyArgTuple(ServerArgs(n)),
                idx |-> 0, seen |-> <<>>]
    /\ calls' = <<>>
    /\ UNCHANGED <<boot_vars, unit_vars, table_vars, hook_vars, np_vars, rs_vars>>

\* _do_hook takes the hooks lock.
DoHookAcquire ==
    /\ fire.st = "waiting"
    /\ LockFree(Server)
    /\ hooks_lock' = Server
    /\ fire' = [fire EXCEPT !.st = "running", !.idx = 1, !.seen = hooks[fire.event]]
    /\ UNCHANGED <<boot_vars, unit_vars, table_vars, hooks, calls, np_vars, rs_vars>>

\* Line 198, handler(*argtuple): unpacking an argument that is not a
\* sequence raises TypeError before the handler is entered; a handler may
\* raise. Either way the exception leaves _do_hook and the proxy.
DoHookStep ==
    /\ fire.st = "running"
    /\ fire.idx <= Len(hooks[fire.event])
    /\ LET h == hooks[fire.event][fire.idx]
       IN IF ~fire.args.is_tuple
          THEN /\ fire' = [fire EXCEPT !.st = "raised"]
               /\ hooks_lock' = NoOwner
               /\ UNCHANGED calls
          ELSE /\ calls' = Append(calls, [handler |-> h, args |-> fire.args.items])
               /\ IF HandlerRaises(h)
                  THEN /\ fire' = [fire EXCEPT !.st = "raised"]
                       /\ hooks_lock' = NoOwner
                  ELSE /\ fire' = [fire EXCEPT !.idx = @ + 1]
                       /\ UNCHANGED hooks_lock
    /\ UNCHANGED <<boot_vars, unit_vars, table_vars, hooks, np_vars, rs_vars>>

\* The loop of line 197 is over: _do_hook and the proxy return.
DoHookReturn ==
    /\ fire.st = "running"
    /\ fire.idx > Len(hooks[fire.event])
    /\ fire' = [fire EXCEPT !.st = "returned"]
    /\ hooks_lock' = NoOwner
    /\ UNCHANGED <<boot_vars, unit_vars, table_vars, hooks, calls, np_vars, rs_vars>>

----------------------------------------------------------------------------
(* The program *)

Next ==
    \/ LoadSetup
    \/ \E u \in Units : Dispatch(u)
    \/ LoadReturn
    \/ \E u \in Units, c \in Bodies : ExecFile(u, c)
    \/ \E u \in Units, found \in BOOLEAN : DefaultMount(u, found)
    \/ \E u \in Units : \E r \in todo[u] : MountStep(u, r)
    \/ \E u \in Units : HooksAcquire(u)
    \/ \E u \in Units : RegisterStep(u)
    \/ \E u \in Units : HooksRelease(u)
    \/ \E u \in Units : Hang(u)
    \/ \E n \in SettingNames : ProxyCall(n)
    \/ DoHookAcquire
    \/ DoHookStep
    \/ DoHookReturn

Spec == Init /\ [][Next]_vars

----------------------------------------------------------------------------
(* The normalisation of lines 138-144 on its own, for every declared path *)

MaxPathLen == 4
Alphabet == {Slash, "s", "t"}

RECURSIVE PathsOfLen(_)
PathsOfLen(n) ==
    IF n = 0 THEN {<<>>}
    ELSE {Append(p, ch) : p \in PathsOfLen(n - 1), ch \in Alphabet}

RawPaths == UNION {PathsOfLen(n) : n \in 0..MaxPathLen}

NormInit ==
    /\ LoaderInit
    /\ np_raw \in RawPaths
    /\ np_out = np_raw
    /\ np_pc = "declared"
    /\ ResolveIdle

loader_vars == <<boot_vars, unit_vars, hook_vars, fire_vars>>

\* Lines 138-140.
NormStrip ==
    /\ np_pc = "declared"
    /\ np_out' = StripTrailing(np_out)
    /\ np_pc' = "stripped"
    /\ UNCHANGED <<np_raw, loader_vars, table_vars, rs_vars>>

\* Lines 141-143.
NormLead ==
    /\ np_pc = "stripped"
    /\ np_out' = AddLeading(np_out)
    /\ np_pc' = "led"
    /\ UNCHANGED <<np_raw, loader_vars, table_vars, rs_vars>>

\* Line 144: the path is handed to add_mount.
NormPass ==
    /\ np_pc = "led"
    /\ router' = AddMountTable(router, np_out, "X")
    /\ add_calls' = add_calls \cup {[AddCall("a", np_raw, "X") EXCEPT !.path = np_out]}
    /\ np_pc' = "passed"
    /\ UNCHANGED <<np_raw, np_out, loader_vars, rs_vars>>

NormNext == NormStrip \/ NormLead \/ NormPass

SpecNorm == NormInit /\ [][NormNext]_vars

----------------------------------------------------------------------------
(* resolve() on a table assembled by add_mount, for every request path *)

MaxMounts == 2

\* Declared paths of the mounts: '/', '/s', 'ts/' and '/s/t'.
MountPaths == {<<Slash>>, <<Slash, "s">>, <<"t", "s", Slash>>, <<Slash, "s", Slash, "t">>}

ResolveInit == LoaderInit /\ NormIdle /\ ResolveIdle

\* Lines 138-144: a mount is normalized and handed to add_mount.
ResolveMount(r, a) ==
    /\ rs_out = None
    /\ Cardinality(DOMAIN router) < MaxMounts
    /\ router' = AddMountTable(router, Normalize(r), a)
    /\ UNCHANGED <<add_calls, loader_vars, np_vars, rs_vars>>

\* The router load() returned (line 185) resolves a request path.
ResolveRequest(path) ==
    /\ rs_out = None
    /\ rs_path' = path
    /\ rs_out' = Resolve(router, path)
    /\ UNCHANGED <<loader_vars, table_vars, np_vars>>

ResolveNext ==
    \/ \E r \in MountPaths, a \in {"X", "Y"} : ResolveMount(r, a)
    \/ \E path \in RawPaths : ResolveRequest(path)

SpecResolve == ResolveInit /\ [][ResolveNext]_vars

----------------------------------------------------------------------------
(* Vocabulary of the properties *)

Finished(u) == pc[u] \in {"done", "failed", "exited"}

\* The calls of add_mount made by unit u, and those that inserted an entry.
CallsBy(u) == {c \in add_calls : c.unit = u}
InsertedBy(u) == {c \in CallsBy(u) : c.inserted}

\* The places <<event, position>> of the handlers of unit u in the registry.
HookPlaces == UNION {{n} \X (1..Len(hooks[n])) : n \in DOMAIN hooks}
HooksBy(u) == {x \in HookPlaces : hooks[x[1]][x[2]][1] = u}

BodyFailed(u) == body_result[u].body \in {"raise", "syntax"}

\* Every mount in the scope of unit u is in the table.
MountsPresent(u) ==
    \A r \in DOMAIN cfg_mounts[u] :
        /\ RouterKey(Normalize(r)) \in DOMAIN router
        /\ router[RouterKey(Normalize(r))] = cfg_mounts[u][r]

----------------------------------------------------------------------------
(* C1: a unit whose body raises during execution makes no call of          *)
(* add_mount, inserts nothing in the mount table and has no handler in any *)
(* event's list; and once the task of a unit that loads without failure    *)
(* has finished, every mount of that unit is in the table, whatever the    *)
(* interleaving of the loader tasks.                                       *)
C1_FailedBodyContributesNothing ==
    \A u \in Units :
        /\ BodyFailed(u) => CallsBy(u) = {} /\ HooksBy(u) = {} /\ pc[u] = "failed"
        /\ pc[u] = "done" => MountsPresent(u)

\* A unit's body has raised with a mount and a hook bound in its scope, and
\* its sibling has finished loading with its mount in the table.
C1_Witness ==
    \E u, v \in Units :
        /\ u # v
        /\ body_result[u].body = "raise"
        /\ DOMAIN body_result[u].mounts # {}
        /\ pc[u] = "failed"
        /\ pc[v] = "done"
        /\ InsertedBy(v) # {}
        /\ MountsPresent(v)

----------------------------------------------------------------------------
(* C2: when two units have each called add_mount for the same normalized   *)
(* path with different handlers, exactly one of the two handlers is bound  *)
(* to that path, exactly one of the two calls returned the handler it was  *)
(* given, and the unit of the other call saw a different handler and has   *)
(* detected the conflict (its task left through sys.exit).                 *)
C2_ExactlyOneWinner ==
    \A c \in add_calls : \A d \in add_calls :
        (c.unit # d.unit /\ RouterKey(c.path) = RouterKey(d.path) /\ c.supplied # d.supplied)
        => /\ router[RouterKey(c.path)] \in {c.supplied, d.supplied}
           /\ (c.returned = c.supplied) # (d.returned = d.supplied)
           /\ c.returned # c.supplied => pc[c.unit] = "exited"
           /\ d.returned # d.supplied => pc[d.unit] = "exited"

\* Two units have raced for '/s', one declaring '/s' and the other 's/'.
C2_Witness ==
    \E c \in add_calls : \E d \in add_calls :
        /\ c.unit # d.unit
        /\ c.raw # d.raw
        /\ c.path = d.path
        /\ c.supplied # d.supplied
        /\ c.returned = c.supplied
        /\ d.returned = c.supplied
        /\ pc[d.unit] = "exited"

----------------------------------------------------------------------------
(* C3: whenever a loader task has detected a routing conflict, the whole   *)
(* process is terminated: from then on no task adds a mount or a hook and  *)
(* load() does not go on to hand the mount table to the server.            *)
ConflictDetected == \E u \in Units : pc[u] = "exited"

C3_ConflictHaltsProcess ==
    [][ConflictDetected => UNCHANGED <<router, add_calls, hooks, main_pc, pc>>]_vars

----------------------------------------------------------------------------
(* C4: a fan-out over the handler list [h1, ..., hn] invokes every handler *)
(* once, in list order, and returns to its caller without an exception,    *)
(* even when some hi raises. (Stated for the proxies that hand _do_hook a  *)
(* tuple of arguments.)                                                    *)
FanoutOver == fire.st \in {"returned", "raised"}

InvokedHandlers == [i \in 1..Len(calls) |-> calls[i].handler]

C4_FanoutSurvivesFailure ==
    (FanoutOver /\ fire.args.is_tuple)
    => /\ fire.st = "returned"
       /\ InvokedHandlers = fire.seen

----------------------------------------------------------------------------
(* C5: when no handler fails, one call of the proxy installed for event E  *)
(* invokes exactly the handlers registered for E, each once, in the order  *)
(* of E's list, each with exactly the arguments the proxy received.        *)
NoneRaises(hs) == \A i \in 1..Len(hs) : ~HandlerRaises(hs[i])

C5_ProxyPassesArguments ==
    (FanoutOver /\ NoneRaises(fire.seen))
    => /\ fire.st = "returned"
       /\ calls = [i \in 1..Len(fire.seen) |->
                     [handler |-> fire.seen[i], args |-> ServerArgs(fire.event)]]
       /\ \A i \in 1..Len(fire.seen) : fire.seen[i][2] = fire.event

----------------------------------------------------------------------------
(* C6: a unit whose load ended in a caught failure (of its body, of the    *)
(* handler resolution, of a hook validator) has inserted no entry in the   *)
(* mount table and has no handler in any event's list.                     *)
C6_BrokenUnitContributesNothing ==
    \A u \in Units : pc[u] = "failed" => InsertedBy(u) = {} /\ HooksBy(u) = {}

----------------------------------------------------------------------------
(* C7: _setup_hooks runs the event's validator before appending: no        *)
(* handler that fails its validator is ever in a handler list; a validator *)
(* failure is caught by the unit's load_file, which ends with the hooks    *)
(* lock released; and no step removes or reorders the handlers already     *)
(* registered (a list only grows at its end, and the failing step changes  *)
(* no list).                                                               *)
AllRegisteredValid == \A x \in HookPlaces : hooks[x[1]][x[2]][3] # "invalid"

ValidatorFailureCaught ==
    \A u \in Units :
        /\ caught[u] = "validator" => pc[u] = "failed"
        /\ Finished(u) => hooks_lock # u

IsPrefix(s, t) == Len(s) <= Len(t) /\ SubSeq(t, 1, Len(s)) = s

ListsOnlyGrow ==
    /\ \A n \in DOMAIN hooks : n \in DOMAIN hooks' /\ IsPrefix(hooks[n], hooks'[n])
    /\ caught' # caught => hooks' = hooks

C7_ValidatorGuardsRegistration ==
    [][AllRegisteredValid' /\ ValidatorFailureCaught' /\ ListsOnlyGrow]_vars

\* Unit u registered a handler for one event and then failed the validator
\* of the other; afterwards its sibling v registered its own handler behind
\* it and finished, and the lock is free.
C7_Witness ==
    \E u, v \in Units : \E n \in DOMAIN hooks :
        /\ u # v
        /\ caught[u] = "validator"
        /\ pc[v] = "done"
        /\ Len(hooks[n]) = 2
        /\ hooks[n][1][1] = u
        /\ hooks[n][2][1] = v
        /\ hooks_lock = NoOwner

----------------------------------------------------------------------------
(* C8: a mount-table entry is never overwritten or removed: every step     *)
(* keeps every entry as it is, and at any time the handler every call of   *)
(* add_mount returned is the one its path is bound to (so a call for a     *)
(* bound path returned the first handler and changed nothing), an          *)
(* inserting call having returned the handler it was given.                *)
EntriesKept ==
    \A k \in DOMAIN router : k \in DOMAIN router' /\ router'[k] = router[k]

CallsAgreeWithTable ==
    \A c \in add_calls :
        /\ RouterKey(c.path) \in DOMAIN router
        /\ router[RouterKey(c.path)] = c.returned
        /\ c.inserted => c.returned = c.supplied

C8_EntriesNeverOverwritten == [][EntriesKept /\ CallsAgreeWithTable']_vars

\* add_mount was called for '/s' with X and then for the same path with Y:
\* both calls returned X and '/s' is bound to X.
C8_Witness ==
    \E c \in add_calls : \E d \in add_calls :
        /\ c.path = d.path
        /\ c.inserted /\ ~d.inserted
        /\ c.supplied # d.supplied
        /\ d.returned = c.supplied
        /\ router[RouterKey(c.path)] = c.supplied

----------------------------------------------------------------------------
(* C9, as claimed: every path handed to add_mount starts with '/' and does *)
(* not end with '/', except that the root path is kept as '/'; 'foo/' is   *)
(* handed over as '/foo'; normalizing a normalized path changes nothing.   *)
(* (Stated for the declared paths that are not the empty string.)          *)
SlashFree(w) == \A i \in 1..Len(w) : w[i] # Slash
OnlySlashes(r) == \A i \in 1..Len(r) : r[i] = Slash

TrailingLikeLeading ==
    \A w \in RawPaths :
        (w # <<>> /\ SlashFree(w) /\ np_raw \in {Append(w, Slash), <<Slash>> \o w})
        => np_out = <<Slash>> \o w

C9_PassedPathNormalized ==
    (np_pc = "passed" /\ np_raw # <<>>)
    => /\ StartsWithSlash(np_out)
       /\ EndsWithSlash(np_out) => np_out = <<Slash>>
       /\ np_raw = <<Slash>> => np_out = <<Slash>>
       /\ TrailingLikeLeading
       /\ Normalize(np_out) = np_out

(* C9, amended: a declared path made of '/' characters only (the root '/', *)
(* '//', the empty string) is handed to add_mount as the empty string;     *)
(* every other path handed over starts with '/' and does not end with '/'; *)
(* 'foo/' is handed over as '/foo'; normalizing a normalized path changes  *)
(* nothing.                                                                *)
C9_RootPassedAsEmpty ==
    np_pc = "passed"
    => /\ np_out = Normalize(np_raw)
       /\ OnlySlashes(np_raw) <=> np_out = <<>>
       /\ np_out # <<>> => StartsWithSlash(np_out) /\ ~EndsWithSlash(np_out)
       /\ TrailingLikeLeading
       /\ Normalize(np_out) = np_out
       /\ \E c \in add_calls : c.raw = np_raw /\ c.path = np_out

\* The root path '/' was declared and the empty string was handed over.
C9_Witness ==
    /\ np_pc = "passed"
    /\ np_raw = <<Slash>>
    /\ np_out = <<>>
    /\ DOMAIN router # {}

----------------------------------------------------------------------------
(* C10: the default mount is applied exactly when the unit's body ended    *)
(* normally and left `mounts` empty: the unit's only mount is then '/' +   *)
(* its name, bound to the handler resolved from its name, and it hands     *)
(* nothing else to add_mount; a unit whose body failed or declared a mount *)
(* keeps the mounts it declared; a unit whose name does not resolve makes  *)
(* no call of add_mount.                                                   *)
Declared(u) == body_result[u].mounts
DefaultDue(u) == body_result[u].body = "ok" /\ Declared(u) = EmptyDict

C10_DefaultMount ==
    \A u \in Units :
        /\ (DefaultDue(u) /\ pc[u] # "default" /\ caught[u] # "import")
           => /\ cfg_mounts[u] = (<<Slash, u>> :> ImportApp(u))
              /\ \A c \in CallsBy(u) :
                    c.raw = <<Slash, u>> /\ c.path = <<Slash, u>> /\ c.supplied = ImportApp(u)
        /\ ~DefaultDue(u)
           => cfg_mounts[u] = Declared(u) /\ pc[u] # "default" /\ caught[u] # "import"
        /\ caught[u] = "import"
           => CallsBy(u) = {} /\ pc[u] = "failed" /\ cfg_mounts[u] = EmptyDict

\* A unit that declared no mount has finished loading, and '/' + its name
\* is bound to the handler resolved from its name.
C10_Witness ==
    \E u \in Units :
        /\ DefaultDue(u)
        /\ pc[u] = "done"
        /\ \E c \in InsertedBy(u) : c.path = <<Slash, u>>
        /\ <<Slash, u>> \in DOMAIN router
        /\ router[<<Slash, u>>] = ImportApp(u)

----------------------------------------------------------------------------
(* C11: load() starts one loader task per discovered unit and then returns *)
(* the mount table without waiting for any of them: once every task is     *)
(* started the return is possible whatever the tasks have done, so the     *)
(* table handed over may lack the mount of a unit that loads successfully  *)
(* later; a path then resolves as NotFound first and to a handler later.   *)
C11_LoadReturnsWithoutJoin ==
    /\ (main_pc = "dispatch" /\ to_dispatch = {}) => ENABLED LoadReturn
    /\ main_pc = "booted" => \A u \in Units : pc[u] # "unstarted"
    /\ \A c \in add_calls :
          (c.inserted /\ ~c.after_boot /\ main_pc = "booted")
          => Resolve(router, c.path \o <<Slash, "x">>) # NotFound

\* Boot has completed with an empty table (every path resolved as
\* NotFound); since then a unit has loaded successfully, and a path under
\* its mount now resolves to its handler.
C11_Witness ==
    /\ main_pc = "booted"
    /\ add_calls # {}
    /\ \A c \in add_calls : c.after_boot
    /\ \E u \in Units : \E c \in InsertedBy(u) :
          /\ pc[u] = "done"
          /\ c.path # <<>>
          /\ Resolve(router, c.path \o <<Slash, "x">>) = c.supplied

----------------------------------------------------------------------------
(* C12: when every call a unit makes returns and no two units claim the    *)
(* same path, every loader task reaches a terminal state, and the table    *)
(* then holds exactly the mounts of the units that did not fail.           *)
(* (Stated for the terminal states: all tasks over, none through a         *)
(* conflict.)                                                              *)
KeysOf(u) == {RouterKey(Normalize(r)) : r \in DOMAIN cfg_mounts[u]}

NoSharedPath == \A u, v \in Units : u # v => KeysOf(u) \cap KeysOf(v) = {}

Loaded == {u \in Units : pc[u] = "done"}

MountsOfLoaded ==
    {<<RouterKey(Normalize(r)), cfg_mounts[u][r]>> : <<u, r>> \in
        {x \in Units \X UNION {DOMAIN cfg_mounts[v] : v \in Units} :
            x[1] \in Loaded /\ x[2] \in DOMAIN cfg_mounts[x[1]]}}

TableEntries == {<<k, router[k]>> : k \in DOMAIN router}

C12_FinalTableIsMountsOfLoaded ==
    ((\A u \in Units : pc[u] \in {"done", "failed"}) /\ NoSharedPath)
    => TableEntries = MountsOfLoaded

----------------------------------------------------------------------------
(* C13: a unit whose load is inside a call that never returns blocks only  *)
(* its own task: load() can still return, and the hung unit does not keep  *)
(* a sibling from entering its hook registration nor a fan-out from        *)
(* starting (neither waits for a lock the hung unit holds).                *)
NotOwnedByOther(u) == hooks_lock \in {NoOwner, u}

C13_HangBlocksOnlyOwnTask ==
    \A u \in Units :
        hung[u]
        => /\ (main_pc = "dispatch" /\ to_dispatch = {}) => ENABLED LoadReturn
           /\ \A v \in Units \ {u} :
                 (pc[v] = "hooks" /\ NotOwnedByOther(u)) => ENABLED HooksAcquire(v)
           /\ (fire.st = "waiting" /\ NotOwnedByOther(u)) => ENABLED DoHookAcquire

----------------------------------------------------------------------------
(* C14: resolve returns the handler bound to the longest mounted prefix of *)
(* the request path, and NotFound when no mounted path is a prefix of it;  *)
(* with mounts '/s' and '/ts' (for '/blog' and '/api'), resolve('/s/t')    *)
(* is the handler of '/s' and resolve('/tt') is NotFound.                  *)
Prefixes(path) == {SubSeq(path, 1, n) : n \in 0..Len(path)}

MountedPrefixes == Prefixes(rs_path) \cap DOMAIN router

C14_ResolveLongestPrefix ==
    rs_out # None
    => /\ IF MountedPrefixes = {}
          THEN rs_out = NotFound
          ELSE \E k \in MountedPrefixes :
                  /\ \A j \in MountedPrefixes : Len(j) <= Len(k)
                  /\ rs_out = router[k]
       /\ DOMAIN router = {<<Slash, "s">>, <<Slash, "t", "s">>}
          => /\ rs_path = <<Slash, "s", Slash, "t">> => rs_out = router[<<Slash, "s">>]
             /\ rs_path = <<Slash, "t", "t">> => rs_out = NotFound

C14_Witness ==
    /\ rs_out \notin {None, NotFound}
    /\ rs_path \notin DOMAIN router
    /\ Cardinality(MountedPrefixes) = MaxMounts

----------------------------------------------------------------------------
(* C15: with hot reload enabled, the file of every unit is registered with *)
(* the reload watcher before its task is started, and once a unit's load   *)
(* has failed with a caught failure, every file of the failure's traceback *)
(* and the file named by a syntax error are registered too; with hot       *)
(* reload disabled no file is ever registered.                             *)
TracebackFiles(u) ==
    IF caught[u] = "body" THEN {AppFile, UnitFile(u)}
    ELSE IF caught[u] = "syntax" THEN {AppFile}
    ELSE {AppFile, LibFile}

SyntaxErrorFile(u) == IF caught[u] = "syntax" THEN {UnitFile(u)} ELSE {}

----------------------------------------------------------------------------
(* C16: a unit records a routing conflict (and leaves through sys.exit)    *)
(* exactly when one of its add_mount calls returned a handler other than   *)
(* the one supplied, and a call returns another handler exactly when its   *)
(* normalized path was bound before, by any unit, to a different handler;  *)
(* a path already bound to the identical handler is no conflict.           *)
ReturnedOther(c) == c.returned # c.supplied

BoundBefore(c) == {d \in add_calls : d.inserted /\ d.path = c.path /\ d # c}

C16_ConflictIffDifferentHandler ==
    /\ \A u \in Units : pc[u] = "exited" <=> \E c \in CallsBy(u) : ReturnedOther(c)
    /\ \A c \in add_calls :
          /\ ReturnedOther(c) <=> \E d \in BoundBefore(c) : d.supplied # c.supplied
          /\ (~c.inserted /\ \A d \in BoundBefore(c) : d.supplied = c.supplied)
             => ~ReturnedOther(c)

C16_Witness ==
    \E c, d \in add_calls :
        /\ c.unit # d.unit
        /\ c.raw # d.raw
        /\ d \in BoundBefore(c)
        /\ ReturnedOther(c)
        /\ pc[c.unit] = "exited"

----------------------------------------------------------------------------
(* C17: every event's handler list holds at most one handler per unit, is  *)
(* no longer than the number of units whose load reached hook              *)
(* registration, and holds a unit's binding only if the binding is the one *)
(* the unit made under that event's name.                                  *)
ReachedRegistration ==
    {u \in Units : pc[u] \in {"register", "done"} \/ caught[u] = "validator"}

C17_OneHandlerPerUnitAndEvent ==
    \A n \in DOMAIN hooks :
        /\ \A i, j \in 1..Len(hooks[n]) : i # j => hooks[n][i][1] # hooks[n][j][1]
        /\ Len(hooks[n]) <= Cardinality(ReachedRegistration)
        /\ \A i \in 1..Len(hooks[n]) :
              /\ hooks[n][i][2] = n
              /\ hooks[n][i] = cfg_hooks[hooks[n][i][1]][n]

C17_Witness ==
    /\ \A u \in Units : pc[u] = "done"
    /\ \E n, m \in DOMAIN hooks :
          /\ Len(hooks[n]) = Cardinality(Units)
          /\ Len(hooks[m]) < Cardinality(Units)
          /\ \E u \in Units : cfg_hooks[u][n] # NoHandler /\ cfg_hooks[u][m] = NoHandler

----------------------------------------------------------------------------
(* C18: the event set of the hook registry is fixed by setup_hooks before  *)
(* any loader task is dispatched: until then there is no event, no task    *)
(* and no fan-out; from then on the events, each with an installed proxy,  *)
(* are exactly the settings of the "Server Hooks" section, their lists     *)
(* start empty, and no handler is ever registered under another name.      *)
ServerHookSettings ==
    {n \in SettingNames : \E s \in Settings : s.name = n /\ s.section = "Server Hooks"}

C18_EventSetFixedByInstall ==
    /\ main_pc = "init"
       => /\ hooks = EmptyDict /\ proxies = {}
          /\ \A u \in Units : pc[u] = "unstarted"
          /\ fire.st = "idle"
    /\ main_pc # "init"
       => /\ DOMAIN hooks = ServerHookSettings
          /\ proxies = ServerHookSettings
    /\ (\A u \in Units : pc[u] \in {"unstarted", "exec"})
       => \A n \in DOMAIN hooks : hooks[n] = <<>>
    /\ \A x \in HookPlaces : hooks[x[1]][x[2]][2] \in ServerHookSettings

C18_Witness ==
    /\ fire.st = "returned"
    /\ \E u \in Units :
          /\ pc[u] = "done"
          /\ cfg_hooks[u]["workers"] # NoHandler
          /\ HooksBy(u) = {}
    /\ \E u \in Units : HooksBy(u) # {}

----------------------------------------------------------------------------
(* C19: hook registration is atomic across events: a unit inside its pass  *)
(* over the events holds the hooks lock, so no two units are inside their  *)
(* passes at once, and two units that both have handlers in the lists of   *)
(* two events are in the same order in both lists.                         *)
Registering == {u \in Units : pc[u] = "register"}

PlaceOf(u, n) == CHOOSE i \in 1..Len(hooks[n]) : hooks[n][i][1] = u

InList(u, n) == \E i \in 1..Len(hooks[n]) : hooks[n][i][1] = u

C19_RegistrationAtomic ==
    /\ \A u \in Registering : hooks_lock = u
    /\ Cardinality(Registering) <= 1
    /\ \A u, v \in Units : \A n, m \in DOMAIN hooks :
          (InList(u, n) /\ InList(v, n) /\ InList(u, m) /\ InList(v, m))
          => (PlaceOf(u, n) < PlaceOf(v, n) <=> PlaceOf(u, m) < PlaceOf(v, m))

C19_Witness ==
    /\ Cardinality(DOMAIN hooks) > 1
    /\ \A n \in DOMAIN hooks : \A u \in Units : InList(u, n)
    /\ \E u \in Units : pc[u] = "register"

----------------------------------------------------------------------------
(* C20: a fan-out and a registration exclude each other: while _do_hook    *)
(* iterates, it holds the hooks lock, no unit is inside its registration   *)
(* pass and the event's list is the one seen when the lock was taken; the  *)
(* fan-out, once over, has invoked exactly the handlers of that list; and  *)
(* a unit seen by a fan-out is no longer inside its registration pass.     *)
FanoutExclusive ==
    fire.st = "running"
    => /\ hooks_lock = Server
       /\ Registering = {}
       /\ hooks[fire.event] = fire.seen

SeenEntirely ==
    fire.st = "running" => \A u \in Units : HooksBy(u) # {} => pc[u] \in {"done", "failed"}

C20_FanoutSeesListAtAcquisition ==
    /\ FanoutExclusive
    /\ FanoutOver => InvokedHandlers = fire.seen
    /\ SeenEntirely

=============================================================================
